---- MODULE Spec2Model ----
(***************************************************************************)
(* Dropbox service of opendal: the builder (core/src/services/dropbox/     *)
(* builder.rs) that resolves the configured credential into a signer, and  *)
(* the credential cache that hands out a valid access token.               *)
(***************************************************************************)
EXTENDS Integers, Sequences, FiniteSets, TLC

\* ---------------------------------------------------------------- bounds
MaxTime == 3          \* the clock runs from 1 to MaxTime
NumCallers == 2       \* concurrent callers of get_valid_token
MaxCalls == 3         \* transport calls counted up to this cap
MaxDur == 2           \* validity durations answered by the transport: 1..MaxDur

\* ------------------------------------------------------- program constants
MAX_UTC == 1000       \* DateTime::<Utc>::MAX_UTC: later than every clock value
DefaultTime == 0      \* DateTime::<Utc>::default(): the epoch, before the clock
Margin == 1           \* the safety margin of the freshness check

\* ------------------------------------------------------------ value domains
None == "None"                     \* Option::None
DefaultStr == ""                   \* String::default()
TokenVals == {"T1", "T2"}          \* values of access_token / refresh_token
IdVals == {"id"}
SecretVals == {"sec"}
RootVals == {"dir"}

MsgConflict == "access_token and refresh_token can not be set at the same time"
MsgMissing == "access_token or refresh_token must be set"
MsgClientId == "client_id must be set when refresh_token is set"
MsgClientSecret == "client_secret must be set when refresh_token is set"
MsgHttp == "http client build failed"
ConfigMsgs == {MsgConflict, MsgMissing, MsgClientId, MsgClientSecret}

VARIABLES
  root, access_token, refresh_token, client_id, client_secret, http_client,
  cfg,        \* the builder fields the last build() call started from
  ret,        \* what the last build() call returned
  touched,    \* a setter or from_map ran since the last build() call
  prev,       \* what the build() call before the last returned, when the two
              \* calls followed each other with no setter in between
  opts,       \* the option map from_map() made the builder from, until a setter
              \* or a second build() call acts on the builder
  signer,     \* the DropboxSigner inside the backend's Mutex
  lock,       \* holder of the Mutex: 0 when free, else a caller
  pc,         \* position of each caller inside get_valid_token
  res,        \* what each caller's last get_valid_token returned
  made,       \* transport calls each caller issued inside its current/last call
  req,        \* the transport call each caller has outstanding, 0 when none
  now,        \* the clock
  calls,      \* number of transport refresh calls issued so far
  fails,      \* number of transport refresh calls that failed so far
  issued,     \* what each caller's current/last call found when it was invoked
  seen,       \* the refresh that last completed while the caller waited for the lock
  expOf,      \* the transport call whose answer expires_in was last written from
  last        \* outcome of the most recently completed critical section

builderVars == <<root, access_token, refresh_token, client_id, client_secret, http_client>>
histVars == <<cfg, ret, touched, prev, opts>>
cacheVars == <<signer, lock, pc, res, made, req, now, calls, fails, issued, seen, expOf,
               last>>
vars == <<root, access_token, refresh_token, client_id, client_secret, http_client,
          cfg, ret, touched, prev, opts, signer, lock, pc, res, made, req, now, calls, fails,
          issued, seen, expOf, last>>

Callers == 1..NumCallers

\* ---------------------------------------------------------------- builder
\* #[derive(Default)] struct DropboxBuilder: every field None
DropboxBuilder ==
  [root |-> None, access_token |-> None, refresh_token |-> None,
   client_id |-> None, client_secret |-> None, http_client |-> None]

\* the builder as a record of its current fields
Self ==
  [root |-> root, access_token |-> access_token, refresh_token |-> refresh_token,
   client_id |-> client_id, client_secret |-> client_secret, http_client |-> http_client]

\* DropboxSigner { ..Default::default() }
DefaultSigner ==
  [access_token |-> DefaultStr, expires_in |-> DefaultTime,
   refresh_token |-> DefaultStr, client_id |-> DefaultStr, client_secret |-> DefaultStr]

NoSigner == [access_token |-> None, expires_in |-> DefaultTime,
             refresh_token |-> None, client_id |-> None, client_secret |-> None]

NoRet == [kind |-> "none"]
Err(m) == [kind |-> "err", msg |-> m]
Ok(r, s, c) == [kind |-> "ok", root |-> r, signer |-> s, client |-> c]

\* Option::unwrap_or_default on a String
unwrap_or_default(o) == IF o = None THEN DefaultStr ELSE o

\* crate::raw::normalize_root: "/" for the empty root, else "/<root>/"
normalize_root(r) == IF r = "" THEN "/" ELSE "/" \o r \o "/"

\* the user's token built without its never-expiring expiry
FixedSigner_DefaultExpiry(at) == [DefaultSigner EXCEPT !.access_token = at]

\* the user's token given the earliest instant where the code gives the latest
FixedSigner_MinUtc(at) == [DefaultSigner EXCEPT !.access_token = at, !.expires_in = -1]

\* (Some(access_token), None) => DropboxSigner { access_token, expires_in: MAX_UTC, .. }
FixedSigner(at) == [DefaultSigner EXCEPT !.access_token = at, !.expires_in = MAX_UTC]

\* the refresh signer given the never-expiring expiry of the other arm
RefreshableSigner_NeverExpires(rt, ci, cs) ==
  [DefaultSigner EXCEPT !.refresh_token = rt, !.client_id = ci, !.client_secret = cs,
                        !.expires_in = MAX_UTC]

\* the refresh signer with client_id and client_secret in each other's place
RefreshableSigner_SwapIdSecret(rt, ci, cs) ==
  [DefaultSigner EXCEPT !.refresh_token = rt, !.client_id = cs, !.client_secret = ci]

\* the refresh signer with the refresh token put in access_token as well
RefreshableSigner_TokenFromRefresh(rt, ci, cs) ==
  [DefaultSigner EXCEPT !.access_token = rt, !.refresh_token = rt,
                        !.client_id = ci, !.client_secret = cs]

\* the refresh signer with its expiry set to the time of the build
RefreshableSigner_ExpiresNow(rt, ci, cs) ==
  [DefaultSigner EXCEPT !.refresh_token = rt, !.client_id = ci, !.client_secret = cs,
                        !.expires_in = 1]

\* (None, Some(refresh_token)) => DropboxSigner { refresh_token, client_id, client_secret, .. }
RefreshableSigner(rt, ci, cs) ==
  [DefaultSigner EXCEPT !.refresh_token = rt, !.client_id = ci, !.client_secret = cs]

\* what a run of the match leaves: its outcome, access_token and refresh_token
\* taken, client_id and client_secret as given
Left(out, ci, cs) ==
  [out |-> out, access_token |-> None, refresh_token |-> None,
   client_id |-> ci, client_secret |-> cs]
Built(s) == [kind |-> "ok", signer |-> s]

\* a match that tries the access_token arm whatever refresh_token is
resolve_AccessFirst(at, rt, ci, cs) ==
  IF at # None THEN Left(Built(FixedSigner(at)), ci, cs)
  ELSE IF rt # None THEN
    IF ci = None THEN Left(Err(MsgClientId), None, cs)
    ELSE IF cs = None THEN Left(Err(MsgClientSecret), None, None)
    ELSE Left(Built(RefreshableSigner(rt, ci, cs)), None, None)
  ELSE Left(Err(MsgMissing), ci, cs)

\* a match whose (None, None) arm falls back to a default token
resolve_NeitherDefault(at, rt, ci, cs) ==
  IF at # None /\ rt = None THEN Left(Built(FixedSigner(at)), ci, cs)
  ELSE IF at = None /\ rt # None THEN
    IF ci = None THEN Left(Err(MsgClientId), None, cs)
    ELSE IF cs = None THEN Left(Err(MsgClientSecret), None, None)
    ELSE Left(Built(RefreshableSigner(rt, ci, cs)), None, None)
  ELSE IF at # None /\ rt # None THEN Left(Err(MsgConflict), ci, cs)
  ELSE Left(Built(FixedSigner(DefaultStr)), ci, cs)

\* a match that asks for client_secret before client_id
resolve_SecretFirst(at, rt, ci, cs) ==
  IF at # None /\ rt = None THEN Left(Built(FixedSigner(at)), ci, cs)
  ELSE IF at = None /\ rt # None THEN
    IF cs = None THEN Left(Err(MsgClientSecret), ci, None)
    ELSE IF ci = None THEN Left(Err(MsgClientId), None, None)
    ELSE Left(Built(RefreshableSigner(rt, ci, cs)), None, None)
  ELSE IF at # None /\ rt # None THEN Left(Err(MsgConflict), ci, cs)
  ELSE Left(Err(MsgMissing), ci, cs)

\* a match whose refresh arm builds the signer of the access_token arm
resolve_RefreshAsAccess(at, rt, ci, cs) ==
  IF at # None /\ rt = None THEN Left(Built(FixedSigner(at)), ci, cs)
  ELSE IF at = None /\ rt # None THEN
    IF ci = None THEN Left(Err(MsgClientId), None, cs)
    ELSE IF cs = None THEN Left(Err(MsgClientSecret), None, None)
    ELSE Left(Built(FixedSigner(rt)), None, None)
  ELSE IF at # None /\ rt # None THEN Left(Err(MsgConflict), ci, cs)
  ELSE Left(Err(MsgMissing), ci, cs)

\* a match that reads the fields (clone) where the code takes them
resolve_NoTake(at, rt, ci, cs) ==
  [out |->
     IF at # None /\ rt = None THEN Built(FixedSigner(at))
     ELSE IF at = None /\ rt # None THEN
       IF ci = None THEN Err(MsgClientId)
       ELSE IF cs = None THEN Err(MsgClientSecret)
       ELSE Built(RefreshableSigner(rt, ci, cs))
     ELSE IF at # None /\ rt # None THEN Err(MsgConflict)
     ELSE Err(MsgMissing),
   access_token |-> at, refresh_token |-> rt, client_id |-> ci, client_secret |-> cs]

\* The match of build(): the signer or the error it yields, and the fields as
\* the take() calls leave them.  access_token and refresh_token are always
\* taken; client_id is taken in the refresh arm; client_secret is taken only
\* when client_id was there.
resolve(at, rt, ci, cs) ==
  IF at # None /\ rt = None THEN Left(Built(FixedSigner(at)), ci, cs)
  ELSE IF at = None /\ rt # None THEN
    IF ci = None THEN Left(Err(MsgClientId), None, cs)
    ELSE IF cs = None THEN Left(Err(MsgClientSecret), None, None)
    ELSE Left(Built(RefreshableSigner(rt, ci, cs)), None, None)
  ELSE IF at # None /\ rt # None THEN Left(Err(MsgConflict), ci, cs)
  ELSE Left(Err(MsgMissing), ci, cs)

\* build() on a builder b (a record of the six fields), newOk telling whether
\* HttpClient::new() succeeds when no client was supplied: the returned value
\* and the builder afterwards.
build(b, newOk) ==
  LET r == normalize_root(unwrap_or_default(b.root)) IN
  IF b.http_client = None /\ ~newOk THEN
    [ret |-> Err(MsgHttp),
     self |-> [b EXCEPT !.root = None, !.http_client = None]]
  ELSE
    LET client == IF b.http_client # None THEN b.http_client ELSE "new"
        m == resolve(b.access_token, b.refresh_token, b.client_id, b.client_secret)
    IN [ret |-> IF m.out.kind = "ok" THEN Ok(r, m.out.signer, client) ELSE m.out,
        self |-> [root |-> None, access_token |-> m.access_token,
                  refresh_token |-> m.refresh_token, client_id |-> m.client_id,
                  client_secret |-> m.client_secret, http_client |-> None]]

\* the option maps handed to from_map: partial functions on these keys
Keys == {"root", "access_token", "refresh_token", "client_id", "client_secret", "other"}
ValsOf(k) ==
  CASE k = "root" -> RootVals
    [] k \in {"access_token", "refresh_token"} -> TokenVals
    [] k = "client_id" -> IdVals
    [] k = "client_secret" -> SecretVals
    [] OTHER -> {"x"}
Maps == UNION {{m \in [D -> UNION {ValsOf(k) : k \in Keys}] : \A k \in D : m[k] \in ValsOf(k)}
               : D \in SUBSET Keys}
get(map, k) == IF k \in DOMAIN map THEN map[k] ELSE None

\* a from_map that reads client_secret from the client_id key
from_map_SecretFromId(map) ==
  [root |-> get(map, "root"), access_token |-> get(map, "access_token"),
   refresh_token |-> get(map, "refresh_token"), client_id |-> get(map, "client_id"),
   client_secret |-> get(map, "client_id"), http_client |-> None]

\* from_map: the default builder with each of the five keys applied when present
from_map(map) ==
  [root |-> get(map, "root"), access_token |-> get(map, "access_token"),
   refresh_token |-> get(map, "refresh_token"), client_id |-> get(map, "client_id"),
   client_secret |-> get(map, "client_secret"), http_client |-> None]

\* ---------------------------------------------------------------- cache state
\* Arc::new(Mutex::new(signer)): an unlocked mutex around the signer
Unlocked == 0
Idle == [c \in Callers |-> "idle"]
NoRes == [c \in Callers |-> [kind |-> "none"]]
Zero == [c \in Callers |-> 0]
NoSeen == [out |-> "none", n |-> 0]
NoMap == [nomap |-> "nomap"]

FreshCache ==
  /\ lock = Unlocked
  /\ pc = Idle
  /\ res = NoRes
  /\ made = Zero
  /\ req = Zero
  /\ calls = 0
  /\ fails = 0
  /\ issued = [c \in Callers |-> [k |-> "none", tok |-> DefaultStr]]
  /\ seen = [c \in Callers |-> NoSeen]
  /\ expOf = 0
  /\ last = "none"

IsSelf(b) ==
  /\ root = b.root
  /\ access_token = b.access_token
  /\ refresh_token = b.refresh_token
  /\ client_id = b.client_id
  /\ client_secret = b.client_secret
  /\ http_client = b.http_client

\* ---------------------------------------------------------------- builder actions
\* DropboxBuilder::default(), nothing built yet
Init ==
  /\ IsSelf(DropboxBuilder)
  /\ cfg = DropboxBuilder
  /\ ret = NoRet
  /\ touched = TRUE
  /\ prev = NoRet
  /\ opts = NoMap
  /\ signer = NoSigner
  /\ now = 1
  /\ FreshCache

Touch == /\ touched' = TRUE
         /\ opts' = NoMap
         /\ UNCHANGED <<cfg, ret, prev>>
         /\ UNCHANGED cacheVars

SetRoot ==
  \E v \in RootVals :
    /\ root' = v
    /\ UNCHANGED <<access_token, refresh_token, client_id, client_secret, http_client>>
    /\ Touch

SetAccessToken ==
  \E v \in TokenVals :
    /\ access_token' = v
    /\ UNCHANGED <<root, refresh_token, client_id, client_secret, http_client>>
    /\ Touch

SetRefreshToken ==
  \E v \in TokenVals :
    /\ refresh_token' = v
    /\ UNCHANGED <<root, access_token, client_id, client_secret, http_client>>
    /\ Touch

SetClientId ==
  \E v \in IdVals :
    /\ client_id' = v
    /\ UNCHANGED <<root, access_token, refresh_token, client_secret, http_client>>
    /\ Touch

SetClientSecret ==
  \E v \in SecretVals :
    /\ client_secret' = v
    /\ UNCHANGED <<root, access_token, refresh_token, client_id, http_client>>
    /\ Touch

SetHttpClient ==
  /\ http_client' = "supplied"
  /\ UNCHANGED <<root, access_token, refresh_token, client_id, client_secret>>
  /\ Touch

\* from_map(map): the constructor; it makes the builder, so it acts where
\* no setter and no build() has acted yet
FromMap ==
  \E map \in Maps :
    LET b == from_map(map) IN
    /\ IsSelf(DropboxBuilder)
    /\ ret = NoRet
    /\ root' = b.root
    /\ access_token' = b.access_token
    /\ refresh_token' = b.refresh_token
    /\ client_id' = b.client_id
    /\ client_secret' = b.client_secret
    /\ http_client' = b.http_client
    /\ touched' = TRUE
    /\ opts' = map
    /\ UNCHANGED <<cfg, ret, prev>>
    /\ UNCHANGED cacheVars

\* build(): the whole call; a successful call puts its signer in a new Mutex
Build ==
  \E newOk \in (IF http_client = None THEN BOOLEAN ELSE {TRUE}) :
    LET r == build(Self, newOk) IN
    /\ root' = r.self.root
    /\ access_token' = r.self.access_token
    /\ refresh_token' = r.self.refresh_token
    /\ client_id' = r.self.client_id
    /\ client_secret' = r.self.client_secret
    /\ http_client' = r.self.http_client
    /\ cfg' = Self
    /\ ret' = r.ret
    /\ prev' = IF touched THEN NoRet ELSE ret
    /\ touched' = FALSE
    /\ opts' = IF touched THEN opts ELSE NoMap
    /\ signer' = IF r.ret.kind = "ok" THEN r.ret.signer ELSE signer
    /\ UNCHANGED <<lock, pc, res, made, req, now, calls, fails, issued, seen, expOf, last>>

NextBuilder ==
  \/ SetRoot
  \/ SetAccessToken
  \/ SetRefreshToken
  \/ SetClientId
  \/ SetClientSecret
  \/ SetHttpClient
  \/ FromMap
  \/ Build

SpecBuilder == Init /\ [][NextBuilder]_vars

\* ------------------------------------------------------------ credential cache
\* The signer of a user-supplied token: "We will never expire user specified token"
IsFixed(s) == s.expires_in = MAX_UTC
IsRefreshable(s) == s # NoSigner /\ ~IsFixed(s)

\* The freshness check: a token is there and its expiry is strictly later than
\* the clock plus the safety margin
IsFresh(s, t) == s.access_token # DefaultStr /\ s.expires_in > t + Margin

\* a signer shared without a mutex: lock() always goes through
CanLock_NoMutex == TRUE

\* tokio::sync::Mutex::lock() goes through only while nobody holds the mutex
CanLock == lock = Unlocked

Token(t) == [kind |-> "token", token |-> t]
RefreshFailed == [kind |-> "err", err |-> "RefreshFailed"]

\* the access token the transport answers to its n-th refresh call
TokName(n) == "tok" \o ToString(n)
Durations == 1..MaxDur

\* the callers waiting for the lock see refresh n complete with outcome o
Completed(o, n) ==
  [d \in Callers |-> IF pc[d] = "waiting" THEN [out |-> o, n |-> n] ELSE seen[d]]

InProgress == {c \in Callers : pc[c] # "idle"}
Succeeded == calls - fails - Cardinality({c \in Callers : req[c] # 0})

\* get_valid_token() is invoked by caller c.  A Fixed credential returns its
\* token at once, without the lock; a Refreshable one goes for the lock.
Call(c) ==
  /\ signer # NoSigner
  /\ pc[c] = "idle"
  /\ calls + Cardinality(InProgress) < MaxCalls   \* cap: every call begun can still refresh
  /\ made' = [made EXCEPT ![c] = 0]
  /\ issued' = [issued EXCEPT ![c] =
                  [k |-> IF Succeeded = 0 THEN "empty"
                         ELSE IF now < signer.expires_in THEN "early" ELSE "late",
                   tok |-> signer.access_token]]
  /\ IF IsFixed(signer)
       THEN /\ res' = [res EXCEPT ![c] = Token(signer.access_token)]
            /\ pc' = pc
       ELSE /\ res' = [res EXCEPT ![c] = [kind |-> "none"]]
            /\ pc' = [pc EXCEPT ![c] = "waiting"]
  /\ seen' = [seen EXCEPT ![c] = NoSeen]
  /\ UNCHANGED <<signer, lock, req, now, calls, fails, expOf, last>>
  /\ UNCHANGED <<builderVars, histVars>>

\* step 1: acquire exclusive access to the credential state
Lock(c) ==
  /\ pc[c] = "waiting"
  /\ CanLock
  /\ lock' = c
  /\ pc' = [pc EXCEPT ![c] = "locked"]
  /\ UNCHANGED <<signer, res, made, req, now, calls, fails, issued, seen, expOf, last>>
  /\ UNCHANGED <<builderVars, histVars>>

\* a check that returns the cached token and keeps the lock
Check_KeepsLock(c) ==
  /\ pc[c] = "locked"
  /\ IF IsFresh(signer, now)
       THEN /\ res' = [res EXCEPT ![c] = Token(signer.access_token)]
            /\ pc' = [pc EXCEPT ![c] = "idle"]
            /\ last' = "cached"
            /\ UNCHANGED <<made, req, calls, lock>>
       ELSE /\ calls' = calls + 1
            /\ req' = [req EXCEPT ![c] = calls + 1]
            /\ made' = [made EXCEPT ![c] = made[c] + 1]
            /\ pc' = [pc EXCEPT ![c] = "refreshing"]
            /\ UNCHANGED <<res, lock, last>>
  /\ UNCHANGED <<signer, now, fails, issued, seen, expOf>>
  /\ UNCHANGED <<builderVars, histVars>>

\* steps 2 and 3: under the lock, return the cached token when it is fresh
\* and release the lock; otherwise send the token-exchange request
Check(c) ==
  /\ pc[c] = "locked"
  /\ IF IsFresh(signer, now)
       THEN /\ res' = [res EXCEPT ![c] = Token(signer.access_token)]
            /\ pc' = [pc EXCEPT ![c] = "idle"]
            /\ lock' = Unlocked
            /\ last' = "cached"
            /\ UNCHANGED <<made, req, calls>>
       ELSE /\ calls' = calls + 1
            /\ req' = [req EXCEPT ![c] = calls + 1]
            /\ made' = [made EXCEPT ![c] = made[c] + 1]
            /\ pc' = [pc EXCEPT ![c] = "refreshing"]
            /\ UNCHANGED <<res, lock, last>>
  /\ UNCHANGED <<signer, now, fails, issued, seen, expOf>>
  /\ UNCHANGED <<builderVars, histVars>>

\* step 3, the answer: store the new token with its expiry, return it
RefreshOk(c) ==
  \E d \in Durations :
    /\ pc[c] = "refreshing"
    /\ signer' = [signer EXCEPT !.access_token = TokName(req[c]), !.expires_in = now + d]
    /\ res' = [res EXCEPT ![c] = Token(TokName(req[c]))]
    /\ req' = [req EXCEPT ![c] = 0]
    /\ pc' = [pc EXCEPT ![c] = "idle"]
    /\ lock' = Unlocked
    /\ last' = "ok"
    /\ expOf' = req[c]
    /\ seen' = Completed("ok", req[c])
    /\ UNCHANGED <<made, now, calls, fails, issued>>
    /\ UNCHANGED <<builderVars, histVars>>

\* a failing refresh that wrote the new expiry before it knew the answer
RefreshFail_PartialUpdate(c) ==
  /\ pc[c] = "refreshing"
  /\ signer' = [signer EXCEPT !.expires_in = now + MaxDur + Margin]
  /\ res' = [res EXCEPT ![c] = RefreshFailed]
  /\ req' = [req EXCEPT ![c] = 0]
  /\ pc' = [pc EXCEPT ![c] = "idle"]
  /\ lock' = Unlocked
  /\ fails' = fails + 1
  /\ last' = "failed"
  /\ expOf' = req[c]
  /\ seen' = Completed("failed", req[c])
  /\ UNCHANGED <<made, now, calls, issued>>
  /\ UNCHANGED <<builderVars, histVars>>

\* a failing refresh that goes back to the check and tries again
RefreshFail_Retry(c) ==
  /\ pc[c] = "refreshing"
  /\ IF calls < MaxCalls
       THEN /\ pc' = [pc EXCEPT ![c] = "locked"]
            /\ UNCHANGED <<res, lock>>
       ELSE /\ pc' = [pc EXCEPT ![c] = "idle"]
            /\ res' = [res EXCEPT ![c] = RefreshFailed]
            /\ lock' = Unlocked
  /\ req' = [req EXCEPT ![c] = 0]
  /\ fails' = fails + 1
  /\ last' = "failed"
  /\ seen' = Completed("failed", req[c])
  /\ UNCHANGED <<signer, made, now, calls, issued, expOf>>
  /\ UNCHANGED <<builderVars, histVars>>

\* step 4: the request failed; the credential is left as it was
RefreshFail(c) ==
  /\ pc[c] = "refreshing"
  /\ res' = [res EXCEPT ![c] = RefreshFailed]
  /\ req' = [req EXCEPT ![c] = 0]
  /\ pc' = [pc EXCEPT ![c] = "idle"]
  /\ lock' = Unlocked
  /\ fails' = fails + 1
  /\ last' = "failed"
  /\ seen' = Completed("failed", req[c])
  /\ UNCHANGED <<signer, made, now, calls, issued, expOf>>
  /\ UNCHANGED <<builderVars, histVars>>

\* the clock advances
Tick ==
  /\ now < MaxTime
  /\ now' = now + 1
  /\ UNCHANGED <<signer, lock, pc, res, made, req, calls, fails, issued, seen, expOf, last>>
  /\ UNCHANGED <<builderVars, histVars>>

\* the option maps of the four credential fields, with one refresh token
CredentialMaps ==
  {m \in Maps : /\ DOMAIN m \subseteq Keys \ {"root", "other"}
                /\ get(m, "refresh_token") \in {None, "T1"}}

\* the backend right after from_map(map) and a successful build()
InitCache ==
  \E map \in CredentialMaps :
    LET r == build(from_map(map), TRUE) IN
    /\ r.ret.kind = "ok"
    /\ IsSelf(r.self)
    /\ cfg = from_map(map)
    /\ ret = r.ret
    /\ touched = FALSE
    /\ prev = NoRet
    /\ opts = map
    /\ signer = r.ret.signer
    /\ now = 1
    /\ FreshCache

NextCache ==
  \/ \E c \in Callers : Call(c)
  \/ \E c \in Callers : Lock(c)
  \/ \E c \in Callers : Check(c)
  \/ \E c \in Callers : RefreshOk(c)
  \/ \E c \in Callers : RefreshFail(c)
  \/ Tick

SpecCache == InitCache /\ [][NextCache]_vars

\* The callers that contend in the fair cache: the first two.
Contenders == {c \in Callers : c <= 2}

NextContend ==
  \/ \E c \in Contenders : Call(c)
  \/ \E c \in Contenders : Lock(c)
  \/ \E c \in Contenders : Check(c)
  \/ \E c \in Contenders : RefreshOk(c)
  \/ \E c \in Contenders : RefreshFail(c)
  \/ Tick

\* the cache with a transport that answers every request, callers that go on
\* once they hold the lock, and a lock that is granted fairly
FairCache ==
  \A c \in Contenders :
    /\ SF_vars(Lock(c))
    /\ WF_vars(Check(c))
    /\ WF_vars(RefreshOk(c) \/ RefreshFail(c))

SpecCacheFair == InitCache /\ [][NextContend]_vars /\ FairCache

\* ---------------------------------------------------------------- claims
HttpFailed == ret = Err(MsgHttp)
Resolved == ret.kind # "none" /\ ~HttpFailed
FromRefresh == cfg.access_token = None /\ cfg.refresh_token # None
                 /\ cfg.client_id # None /\ cfg.client_secret # None
FromAccess == cfg.access_token # None /\ cfg.refresh_token = None
Returned(c) == pc[c] = "idle" /\ res[c].kind # "none"
OnEmpty == {c \in Callers : issued[c].k = "empty"}
Refreshers == {c \in OnEmpty : made[c] = 1}
Produced == {Token(TokName(n)) : n \in 1..calls}
RaceOver ==
  /\ FromRefresh
  /\ fails = 0
  /\ OnEmpty # {}
  /\ \A c \in Callers : issued[c].k \in {"empty", "none"}
  /\ \A c \in OnEmpty : Returned(c)

C2_OneInFlight ==
  /\ Cardinality({c \in Callers : req[c] # 0}) <= 1
  /\ \A c \in Callers : req[c] # 0 => lock = c
  /\ \A c \in Callers : pc[c] \in {"locked", "refreshing"} => lock = c
  /\ \A c \in Callers : pc[c] = "refreshing" <=> req[c] # 0

C2_Witness ==
  \E c \in Callers : req[c] # 0 /\ lock = c /\ \E d \in Callers : d # c /\ pc[d] = "waiting"

\* C3: a failed transport call makes get_valid_token() return RefreshFailed and
\* leaves access_token and expires_in as they were; after a failed refresh the
\* credential is not fresh, and the next freshness check issues a new
\* transport call.
C3_FailureLeavesCacheRetryable ==
  /\ [][\A c \in Callers :
          (pc[c] = "refreshing" /\ pc'[c] = "idle" /\ fails' # fails)
            => (res'[c] = RefreshFailed /\ signer' = signer)]_vars
  /\ [](last = "failed" => ~IsFresh(signer, now))
  /\ [][\A c \in Callers :
          (last = "failed" /\ pc[c] = "locked" /\ pc'[c] # "locked")
            => (pc'[c] = "refreshing" /\ calls' = calls + 1)]_vars

C3_Witness ==
  /\ last = "failed"
  /\ signer.access_token # DefaultStr
  /\ \E c \in Callers : res[c] = RefreshFailed
  /\ \E c \in Callers : pc[c] = "refreshing"

\* C4 (as stated): on a Refreshable credential no call returns before a
\* transport call was made, and a call invoked while a token is cached and the
\* clock is before its stored expiry makes no transport call and returns that
\* token.
C4_CachedUntilExpiry ==
  FromRefresh =>
    \A c \in Callers :
      Returned(c) =>
        /\ calls >= 1
        /\ issued[c].k = "early" => (made[c] = 0 /\ res[c] = Token(issued[c].tok))

\* C4 (amended): the call that completes first on a Refreshable credential
\* issued exactly one transport call, the first one, and returns its token (or
\* its failure); a call whose freshness check runs while the stored expiry is
\* later than the clock plus the margin issues none and returns the stored
\* token.
C4_CachedWhileFresh ==
  /\ [][\A c \in Callers :
          (FromRefresh /\ last = "none" /\ pc[c] # "idle" /\ pc'[c] = "idle")
            => (made'[c] = 1 /\ calls' = 1
                /\ res'[c] \in {Token(TokName(1)), RefreshFailed})]_vars
  /\ [][\A c \in Callers :
          (FromRefresh /\ pc[c] = "locked" /\ pc'[c] # "locked" /\ IsFresh(signer, now))
            => (calls' = calls /\ made'[c] = 0 /\ res'[c] = Token(signer.access_token))]_vars
  /\ [](FromRefresh => \A c \in Callers : Returned(c) => calls >= 1)

C4_Witness ==
  /\ FromRefresh
  /\ calls = 1
  /\ \E c, d \in Callers :
       /\ Returned(c) /\ made[c] = 1 /\ res[c] = Token(TokName(1))
       /\ Returned(d) /\ made[d] = 0 /\ res[d] = Token(TokName(1))
       /\ issued[d].k = "early"

\* C5: a configuration with only access_token = T builds a Fixed credential
\* holding T; every get_valid_token() call returns T and the transport is
\* never called.
C5_FixedNeverRefreshes ==
  FromAccess =>
    /\ ret.kind = "ok"
    /\ ret.signer = FixedSigner(cfg.access_token)
    /\ IsFixed(signer)
    /\ calls = 0
    /\ \A c \in Callers : req[c] = 0 /\ made[c] = 0
    /\ \A c \in Callers : res[c].kind # "none" => res[c] = Token(cfg.access_token)

C5_Witness ==
  /\ FromAccess
  /\ now = MaxTime
  /\ \A c \in Callers : res[c] = Token(cfg.access_token)

\* C6: build() on a builder with both access_token and refresh_token set fails
\* with the conflict error, whatever client_id and client_secret are.
C6_BothSetConflict ==
  (Resolved /\ cfg.access_token # None /\ cfg.refresh_token # None)
    => ret = Err(MsgConflict)

C6_Witness ==
  /\ ret = Err(MsgConflict)
  /\ cfg.access_token # None /\ cfg.refresh_token # None
  /\ cfg.client_id # None /\ cfg.client_secret = None

\* C7: build() on a builder with neither access_token nor refresh_token set
\* fails with the missing-credential error, whatever client_id and
\* client_secret are.
C7_NeitherSetMissing ==
  (Resolved /\ cfg.access_token = None /\ cfg.refresh_token = None)
    => ret = Err(MsgMissing)

C7_Witness ==
  /\ ret = Err(MsgMissing)
  /\ cfg.access_token = None /\ cfg.refresh_token = None
  /\ cfg.client_id # None /\ cfg.client_secret # None

\* C8: with only refresh_token set, a missing client_id gives the client_id
\* error (also when client_secret is missing too) and a present client_id with
\* a missing client_secret gives the client_secret error.
C8_MissingClientFields ==
  (Resolved /\ cfg.access_token = None /\ cfg.refresh_token # None) =>
    /\ cfg.client_id = None => ret = Err(MsgClientId)
    /\ (cfg.client_id # None /\ cfg.client_secret = None) => ret = Err(MsgClientSecret)

C8_Witness ==
  /\ ret = Err(MsgClientId)
  /\ cfg.access_token = None /\ cfg.refresh_token # None
  /\ cfg.client_id = None /\ cfg.client_secret = None

\* C9: build() succeeds exactly for access_token alone (a Fixed signer with
\* that token) and for refresh_token alone with client_id and client_secret (a
\* Refreshable signer with that triple, token and expiry at their defaults);
\* every other combination gives one of the four configuration errors.
C9_ResolveTable ==
  Resolved =>
    /\ ret.kind = "ok" <=> (FromAccess \/ FromRefresh)
    /\ FromAccess =>
         /\ ret.signer.access_token = cfg.access_token
         /\ IsFixed(ret.signer)
    /\ FromRefresh =>
         /\ ret.signer.refresh_token = cfg.refresh_token
         /\ ret.signer.client_id = cfg.client_id
         /\ ret.signer.client_secret = cfg.client_secret
         /\ ret.signer.access_token = DefaultStr
         /\ ret.signer.expires_in = DefaultTime
         /\ IsRefreshable(ret.signer)
    /\ ret.kind # "ok" => (ret.kind = "err" /\ ret.msg \in ConfigMsgs)

C9_Witness ==
  /\ ret.kind = "ok"
  /\ FromRefresh
  /\ cfg.refresh_token = "T2"
  /\ signer = RefreshableSigner("T2", "id", "sec")

\* C10 (as stated): a build() call leaves the configuration fields as they
\* were, and a second call right after it returns what the first returned.
C10_BuildIdempotent ==
  /\ ~touched =>
       /\ access_token = cfg.access_token
       /\ refresh_token = cfg.refresh_token
       /\ client_id = cfg.client_id
       /\ client_secret = cfg.client_secret
  /\ prev.kind # "none" => ret = prev

\* C10 (amended): a build() call that gets its HTTP client consumes the
\* configuration: access_token, refresh_token, root and http_client are unset
\* afterwards, client_id too when only refresh_token was set, client_secret
\* too when client_id was there as well; a second call right after it fails
\* with the missing-credential error (or the HTTP client error).
C10_BuildConsumes ==
  /\ (~touched /\ ~HttpFailed) =>
       /\ access_token = None /\ refresh_token = None
       /\ root = None /\ http_client = None
       /\ client_id =
            (IF cfg.access_token = None /\ cfg.refresh_token # None
               THEN None ELSE cfg.client_id)
       /\ client_secret =
            (IF cfg.access_token = None /\ cfg.refresh_token # None /\ cfg.client_id # None
               THEN None ELSE cfg.client_secret)
  /\ (prev.kind # "none" /\ prev # Err(MsgHttp))
       => ret \in {Err(MsgMissing), Err(MsgHttp)}

C10_Witness ==
  /\ prev.kind = "ok"
  /\ ret = Err(MsgMissing)
  /\ ~touched

\* C11: the credential of a cache keeps the variant it was built with, its
\* refresh_token, client_id and client_secret stay what build() put there,
\* and a Fixed credential stays as built and fresh at every clock value.
C11_VariantAndTripleKept ==
  /\ FromAccess => IsFixed(signer)
  /\ FromRefresh => IsRefreshable(signer)
  /\ IsFixed(signer) <=> IsFixed(ret.signer)
  /\ signer.refresh_token = ret.signer.refresh_token
  /\ signer.client_id = ret.signer.client_id
  /\ signer.client_secret = ret.signer.client_secret
  /\ IsFixed(signer) => (signer = ret.signer /\ IsFresh(signer, now))

C11_Witness ==
  /\ FromRefresh
  /\ fails >= 1
  /\ Succeeded >= 1
  /\ signer.access_token # DefaultStr
  /\ signer.refresh_token = cfg.refresh_token

\* C12: on a Refreshable credential the freshness check returns the cached
\* token with no transport call exactly when a token is there and its expiry
\* is strictly later than the clock plus the margin, and issues a transport
\* call otherwise; a call that returns a token returns the stored one, which
\* is a real token whose expiry has not passed.
C12_CachedIffFresh ==
  /\ [][\A c \in Callers :
          (FromRefresh /\ pc[c] = "locked" /\ pc'[c] # "locked") =>
            IF signer.access_token # DefaultStr /\ signer.expires_in > now + Margin
              THEN /\ pc'[c] = "idle"
                   /\ calls' = calls
                   /\ res'[c] = Token(signer.access_token)
              ELSE /\ pc'[c] = "refreshing"
                   /\ calls' = calls + 1
                   /\ res'[c].kind = "none"]_vars
  /\ [][\A c \in Callers :
          (FromRefresh /\ res'[c] # res[c] /\ res'[c].kind = "token") =>
            /\ res'[c].token = signer'.access_token
            /\ res'[c].token # DefaultStr
            /\ signer'.expires_in > now']_vars

C12_Witness ==
  /\ FromRefresh
  /\ \E c \in Callers :
       /\ pc[c] = "refreshing"
       /\ issued[c].k = "early"
       /\ signer.access_token # DefaultStr
       /\ signer.expires_in > now
       /\ signer.expires_in <= now + Margin

OwnOutcomes(d) == {RefreshFailed} \cup {Token(TokName(m)) : m \in (seen[d].n + 1)..calls}

\* C13 (as stated): a caller that waited for the lock while a refresh ran
\* returns the outcome of that refresh: its token when it succeeded, its
\* failure, with no transport call of its own, when it failed.
C13_OutcomeShared ==
  \A d \in Callers :
    Returned(d) =>
      /\ seen[d].out = "ok" => res[d] = Token(TokName(seen[d].n))
      /\ seen[d].out = "failed" => (res[d] = RefreshFailed /\ made[d] = 0)

\* C13 (amended): a refresh once started ends with its token or its failure
\* returned to the caller that started it; a caller that waited while it ran
\* and issues no transport call returns the token of that refresh, and a
\* caller that waited through a failed refresh issues a transport call of its
\* own and returns the outcome of that later call.
C13_WaitersRecheck ==
  /\ [][\A c \in Callers :
          (pc[c] = "refreshing" /\ pc'[c] # "refreshing") =>
            /\ pc'[c] = "idle"
            /\ req'[c] = 0
            /\ res'[c] \in {Token(TokName(req[c])), RefreshFailed}]_vars
  /\ [](\A d \in Callers :
          Returned(d) =>
            /\ (seen[d].out = "ok" /\ made[d] = 0) => res[d] = Token(TokName(seen[d].n))
            /\ (seen[d].out = "ok" /\ made[d] # 0) => (made[d] = 1 /\ res[d] \in OwnOutcomes(d))
            /\ seen[d].out = "failed" => (made[d] = 1 /\ res[d] \in OwnOutcomes(d)))

C13_Witness ==
  \E c, d \in Callers :
    /\ c # d
    /\ Returned(c) /\ res[c] = RefreshFailed
    /\ Returned(d) /\ seen[d].out = "failed" /\ res[d].kind = "token" /\ made[d] = 1

\* C14: a call to get_valid_token() issues at most one transport call; when
\* that call fails the caller returns RefreshFailed at once, without another
\* attempt.
C14_OneAttemptPerCall ==
  /\ [](\A c \in Callers :
          /\ made[c] <= 1
          /\ (Returned(c) /\ res[c] = RefreshFailed) => made[c] = 1)
  /\ [][\A c \in Callers :
          (pc[c] = "refreshing" /\ fails' # fails /\ req'[c] = 0) =>
            /\ pc'[c] = "idle"
            /\ res'[c] = RefreshFailed
            /\ made'[c] = 1
            /\ calls' = calls]_vars

C14_Witness ==
  \E c \in Callers :
    /\ Returned(c) /\ res[c] = RefreshFailed /\ made[c] = 1
    /\ fails = 1 /\ calls = 1
    /\ ~IsFresh(signer, now)

\* the state of a Refreshable credential at clock value t: Empty (no token),
\* Valid (a token, not expired), Expired (a token, its expiry passed)
CredState(s, t) ==
  IF s.access_token = DefaultStr THEN "Empty"
  ELSE IF s.expires_in > t THEN "Valid" ELSE "Expired"
Here == CredState(signer, now)
There == CredState(signer', now')

\* C15 (as stated): the state of a Refreshable credential changes only in
\* steps taken while a caller holds the lock.
C15_TransitionsUnderLock ==
  [][(FromRefresh /\ There # Here) => lock # Unlocked]_vars

\* C15 (amended): access_token and expires_in are written only by the holder
\* of the lock, so Empty -> Valid and Expired -> Valid happen under the lock;
\* Valid -> Expired is the clock passing the expiry, and is the only change
\* of state that happens while the lock is free.
C15_WritesUnderLock ==
  /\ [][(FromRefresh /\ signer' # signer) =>
          (lock # Unlocked /\ pc[lock] = "refreshing" /\ lock' = Unlocked)]_vars
  /\ [][(FromRefresh /\ There # Here /\ lock = Unlocked) =>
          (signer' = signer /\ now' = now + 1 /\ Here = "Valid" /\ There = "Expired")]_vars
  /\ [][(FromRefresh /\ There # Here /\ signer' # signer) => There = "Valid"]_vars

C15_Witness ==
  /\ FromRefresh
  /\ Here = "Expired"
  /\ lock = Unlocked
  /\ last = "ok"
  /\ now = signer.expires_in
  /\ InProgress = {}

\* C16: a Refreshable credential starts Empty and moves only Empty -> Valid,
\* Valid -> Expired and Expired -> Valid; a failed refresh leaves the state,
\* and a credential that has a token never goes back to Empty.
C16_StateMachine ==
  /\ [](FromRefresh /\ calls - fails = 0 => Here = "Empty")
  /\ [][FromRefresh =>
          \/ There = Here
          \/ <<Here, There>> \in {<<"Empty", "Valid">>, <<"Valid", "Expired">>,
                                  <<"Expired", "Valid">>}]_vars
  /\ [][(FromRefresh /\ fails' # fails) => (There = Here /\ signer' = signer)]_vars
  /\ [][(FromRefresh /\ Here # "Empty") => There # "Empty"]_vars

C16_Witness ==
  /\ FromRefresh
  /\ Here = "Valid"
  /\ fails >= 1
  /\ Succeeded >= 2

\* C17: access_token and expires_in of a Refreshable credential go together:
\* both are at their defaults, or the token is the one answered by the
\* transport call the expiry was written from; a caller's freshness check
\* therefore never reads a token with the expiry of another refresh.
C17_TokenAndExpiryPaired ==
  FromRefresh =>
    \/ /\ signer.access_token = DefaultStr
       /\ signer.expires_in = DefaultTime
       /\ expOf = 0
    \/ /\ expOf \in 1..calls
       /\ signer.access_token = TokName(expOf)
       /\ signer.expires_in > DefaultTime
       /\ signer.expires_in # MAX_UTC

C17_Witness ==
  /\ FromRefresh
  /\ expOf = 2
  /\ signer.access_token = TokName(2)
  /\ fails = 1
  /\ \E c \in Callers : pc[c] = "locked"

\* C18: with a transport that always answers and a fair lock, every call to
\* get_valid_token() returns a token or an error; the step that ends a call
\* releases the lock, the lock is held only by a caller inside its critical
\* section, and it is free whenever no call is in progress.
C18_EveryCallReturns ==
  /\ \A c \in Callers : pc[c] # "idle" ~> (pc[c] = "idle" /\ res[c].kind \in {"token", "err"})
  /\ [][\A c \in Callers :
          (pc[c] \in {"locked", "refreshing"} /\ pc'[c] = "idle") => lock' = Unlocked]_vars
  /\ [](lock # Unlocked => pc[lock] \in {"locked", "refreshing"})
  /\ [](InProgress = {} => lock = Unlocked)

C18_Witness ==
  /\ FromRefresh
  /\ InProgress = {}
  /\ lock = Unlocked
  /\ calls >= 2
  /\ fails >= 1
  /\ \A c \in Callers : Returned(c)
  /\ \E c \in Callers : res[c] = RefreshFailed
  /\ \E c \in Callers : res[c].kind = "token" /\ made[c] = 0 /\ seen[c].out = "ok"

FiveKeys == Keys \ {"other"}
Agree(m1, m2) ==
  /\ DOMAIN m1 \cap FiveKeys = DOMAIN m2 \cap FiveKeys
  /\ \A k \in DOMAIN m1 \cap FiveKeys : m1[k] = m2[k]
FieldsOf(b, m) ==
  /\ b.root = get(m, "root")
  /\ b.access_token = get(m, "access_token")
  /\ b.refresh_token = get(m, "refresh_token")
  /\ b.client_id = get(m, "client_id")
  /\ b.client_secret = get(m, "client_secret")
  /\ b.http_client = None

\* C19: the builder from_map makes has each of root, access_token,
\* refresh_token, client_id and client_secret set exactly when the map has
\* that key, to the mapped value; other keys change nothing: build() on it
\* returns what it returns for every map that agrees on the five keys.
C19_FromMapFiveKeys ==
  opts # NoMap =>
    /\ touched => FieldsOf(Self, opts)
    /\ ~touched => FieldsOf(cfg, opts)
    /\ (~touched /\ ~HttpFailed) =>
         \A m2 \in Maps : Agree(opts, m2) => build(from_map(m2), TRUE).ret = ret

C19_Witness ==
  /\ opts # NoMap
  /\ ~touched
  /\ {"other", "root", "refresh_token", "client_id", "client_secret"} \subseteq DOMAIN opts
  /\ ret.kind = "ok"
  /\ ret.signer = RefreshableSigner(opts["refresh_token"], opts["client_id"], opts["client_secret"])
====
